---------------------------- MODULE Spec2Model ----------------------------
(* A model of embeddings/data_io.py: load_data_from_npz, filter_data,      *)
(* trunc_and_limit_dim and pad_sequences.                                  *)
(*                                                                         *)
(* Arrays.  A loaded utterance array is the record [key, rows, cols]: the  *)
(* leading rows x cols block of the archive entry `key`.  pad_sequences    *)
(* looks inside the arrays, so there an array is the sequence of its rows, *)
(* row r of the input being the positive number r and a zero row being 0.  *)
(*                                                                         *)
(* Lists.  filter_data rebinds its five list variables together, so the    *)
(* five lists created by one stage are one heap object (a "bundle"); heap  *)
(* is the sequence of bundles in order of creation and a reference is an   *)
(* index into it.                                                          *)
EXTENDS Integers, Sequences, FiniteSets, TLC

VARIABLES
    pc,        \* position of the driver
    npz,       \* archive: [keys |-> set of keys, rows |-> [key -> row count]]
    min_length,\* argument of load_data_from_npz
    loaded,    \* what load_data_from_npz returned, or the exception it raised
    heap,      \* list objects: sequence of bundles
    made,      \* made[i]: the stage of filter_data that created heap[i]
    argRef,    \* the lists passed to filter_data
    retRef,    \* the lists filter_data returned
    args,      \* the four constraints of filter_data
    rng,       \* state of the module-level generator of `random`
    seeded,    \* the generator state random.seed(1) produces
    cur,       \* the latest invocation of filter_data: its input, the
               \* generator state it was entered with, its result
    prev,      \* the invocation before it: its input, its result
    draws,     \* draws made by other users of the generator since the return
    status,    \* how filter_data ended
    padIn,     \* arguments of pad_sequences
    padOut     \* what pad_sequences returned, or the exception it raised

vars == <<pc, npz, min_length, loaded, heap, made, argRef, retRef, args, rng,
          seeded, cur, prev, draws, status, padIn, padOut>>

loadVars   == <<npz, min_length, loaded>>
filterVars == <<heap, made, argRef, retRef, args, rng, seeded, cur, prev,
                draws, status>>
padVars    == <<padIn, padOut>>

---------------------------------------------------------------------------
(* Bounds *)

MaxBatch  == 3   \* sequences handed to pad_sequences
MaxSeqLen == 5   \* rows of one sequence handed to pad_sequences
MaxPad    == 4   \* n_padded
MaxItems  == 3   \* entries of an archive
MaxRows   == 2   \* rows of an archive entry, and min_length
FeatDim   == 2   \* columns of an archive entry
MaxTokens == 3   \* entries of a dataset handed to filter_data
MaxArg    == 2   \* largest value of a constraint of filter_data
NSeeds    == 2   \* generator states random.seed(1) may stand for
SessTokens == 2  \* entries of a dataset, in a session of several calls
SessArg   == 2   \* largest value of a constraint, in a session
MaxDraws  == 1   \* draws by other users of the generator between calls
NInput    == 1   \* options_dict["n_input"], the d_frame of the truncation
MaxLength == 1   \* options_dict["max_length"] of the truncation

---------------------------------------------------------------------------
(* Python values and helpers *)

None == -1

Min(a, b) == IF a < b THEN a ELSE b
Max(a, b) == IF a > b THEN a ELSE b

RECURSIVE SumSeq(_)
SumSeq(s) == IF s = <<>> THEN 0 ELSE Head(s) + SumSeq(Tail(s))

\* The bounds Python gives the slice [a:b] of a sequence of n items:
\* <<start, stop>>, 0-based, half open.
SliceBounds(a, b, n) ==
    LET start == IF a < 0 THEN Max(a + n, 0) ELSE Min(a, n)
        stop  == IF b < 0 THEN Max(b + n, 0) ELSE Min(b, n)
    IN  <<start, Max(start, stop)>>

\* s[a:b] of a Python sequence held as a TLA+ sequence.
Slice(s, a, b) ==
    LET sb == SliceBounds(a, b, Len(s))
    IN  SubSeq(s, sb[1] + 1, sb[2])

---------------------------------------------------------------------------
(* pad_sequences *)

\* int(np.round(d / 2.)) truncated instead of rounded.
RoundTruncated(d) == IF d >= 0 THEN d \div 2 ELSE -((-d) \div 2)

\* int(np.round(d / 2.)): numpy rounds a half to the even neighbour.
RoundHalf(d) ==
    IF d % 2 = 0 THEN d \div 2
    ELSE LET lo == (d - 1) \div 2
         IN  IF lo % 2 = 0 THEN lo ELSE lo + 1

\* dst[a:b] = src of numpy, dst and src sequences of rows: src must have
\* as many rows as the slice, or one row, which is then repeated.
AssignSlice(dst, a, b, src) ==
    LET sb == SliceBounds(a, b, Len(dst))
        n  == sb[2] - sb[1]
    IN  IF Len(src) = n
        THEN [ok |-> TRUE,
              v  |-> [j \in 1..Len(dst) |->
                        IF j > sb[1] /\ j <= sb[2] THEN src[j - sb[1]]
                        ELSE dst[j]]]
        ELSE IF Len(src) = 1
        THEN [ok |-> TRUE,
              v  |-> [j \in 1..Len(dst) |->
                        IF j > sb[1] /\ j <= sb[2] THEN src[1] ELSE dst[j]]]
        ELSE [ok |-> FALSE, v |-> dst]

Zeros(n) == [j \in 1..n |-> 0]
Ones(n)  == [j \in 1..n |-> 1]

\* The reported length left unclipped.
PadOneUnclipped(cur_x, n_padded, center_padded, return_mask) ==
    LET length == Len(cur_x)
    IN  IF center_padded
        THEN LET padding == RoundHalf(n_padded - length)
             IN  IF length <= n_padded
                 THEN LET r == AssignSlice(Zeros(n_padded), padding,
                                           padding + length, cur_x)
                          m == AssignSlice(Zeros(n_padded), padding,
                                           padding + length, <<1>>)
                      IN  [ok |-> r.ok, row |-> r.v,
                           mask |-> IF return_mask THEN m.v ELSE <<>>,
                           length |-> length]
                 ELSE LET r == AssignSlice(Zeros(n_padded), 0, n_padded,
                                   Slice(cur_x, -padding, -padding + n_padded))
                      IN  [ok |-> r.ok, row |-> r.v,
                           mask |-> IF return_mask THEN Ones(n_padded)
                                    ELSE <<>>,
                           length |-> length]
        ELSE LET len2 == Min(length, n_padded)
                 r == AssignSlice(Zeros(n_padded), 0, len2,
                                  Slice(cur_x, 0, len2))
                 m == AssignSlice(Zeros(n_padded), 0, len2, <<1>>)
             IN  [ok |-> r.ok, row |-> r.v,
                  mask |-> IF return_mask THEN m.v ELSE <<>>,
                  length |-> length]

\* One iteration of the loop of pad_sequences: the row block, the mask row
\* and the length it produces for cur_x.
PadOne(cur_x, n_padded, center_padded, return_mask) ==
    LET length == Len(cur_x)
    IN  IF center_padded
        THEN LET padding == RoundHalf(n_padded - length)
             IN  IF length <= n_padded
                 THEN LET r == AssignSlice(Zeros(n_padded), padding,
                                           padding + length, cur_x)
                          m == AssignSlice(Zeros(n_padded), padding,
                                           padding + length, <<1>>)
                      IN  [ok |-> r.ok, row |-> r.v,
                           mask |-> IF return_mask THEN m.v ELSE <<>>,
                           length |-> Min(length, n_padded)]
                 ELSE LET r == AssignSlice(Zeros(n_padded), 0, n_padded,
                                   Slice(cur_x, -padding, -padding + n_padded))
                      IN  [ok |-> r.ok, row |-> r.v,
                           mask |-> IF return_mask THEN Ones(n_padded)
                                    ELSE <<>>,
                           length |-> Min(length, n_padded)]
        ELSE LET len2 == Min(length, n_padded)
                 r == AssignSlice(Zeros(n_padded), 0, len2,
                                  Slice(cur_x, 0, len2))
                 m == AssignSlice(Zeros(n_padded), 0, len2, <<1>>)
             IN  [ok |-> r.ok, row |-> r.v,
                  mask |-> IF return_mask THEN m.v ELSE <<>>,
                  length |-> len2]

\* pad_sequences(x, n_padded, center_padded, return_mask).
PadSequencesResult(x, n_padded, center_padded, return_mask) ==
    IF Len(x) = 0 THEN [exc |-> "IndexError"]          \* x[0].shape
    ELSE LET one(i) == PadOne(x[i], n_padded, center_padded, return_mask)
             padded_x == [i \in 1..Len(x) |-> one(i).row]
             lengths  == [i \in 1..Len(x) |-> one(i).length]
             mask_x   == [i \in 1..Len(x) |-> one(i).mask]
         IN  IF \E i \in 1..Len(x) : ~one(i).ok
             THEN [exc |-> "ValueError"]
             ELSE IF return_mask
             THEN [exc |-> "none", padded_x |-> padded_x,
                   lengths |-> lengths, mask_x |-> mask_x]
             ELSE [exc |-> "none", padded_x |-> padded_x,
                   lengths |-> lengths]

\* The value of a result variable before the call that sets it.
Pending == [exc |-> "pending"]

NoCall == [called |-> FALSE]

NoArgs == [n_min_tokens_per_type |-> None, n_max_types |-> None,
           n_max_tokens |-> None, n_max_tokens_per_type |-> None]

\* The variables of the loader and of the filter while they are not in use.
LoadIdle ==
    /\ npz = [keys |-> {}, rows |-> <<>>]
    /\ min_length = None
    /\ loaded = Pending

FilterIdle ==
    /\ heap = <<>> /\ made = <<>> /\ argRef = 0 /\ retRef = 0
    /\ args = NoArgs /\ rng = 0 /\ seeded = 0
    /\ cur = NoCall /\ prev = NoCall
    /\ draws = 0 /\ status = "none"

PadIdle ==
    /\ padIn = [x |-> <<>>, n_padded |-> 0, center_padded |-> TRUE,
                return_mask |-> FALSE]
    /\ padOut = Pending

\* An input sequence of L rows: row r holds the number r.
Rows(L) == [r \in 1..L |-> r]

InitPad ==
    /\ pc = "pad"
    /\ \E n \in 0..MaxBatch :
       \E ls \in [1..n -> 0..MaxSeqLen] :
       \E T \in 0..MaxPad :
       \E c \in BOOLEAN :
       \E m \in BOOLEAN :
          padIn = [x |-> [i \in 1..n |-> Rows(ls[i])], n_padded |-> T,
                   center_padded |-> c, return_mask |-> m]
    /\ padOut = Pending
    /\ LoadIdle
    /\ FilterIdle

PadSequences ==
    /\ pc = "pad"
    /\ padOut' = PadSequencesResult(padIn.x, padIn.n_padded,
                                    padIn.center_padded, padIn.return_mask)
    /\ pc' = "padded"
    /\ UNCHANGED <<padIn, loadVars, filterVars>>

NextPad == PadSequences

SpecPad == InitPad /\ [][NextPad]_vars

---------------------------------------------------------------------------
(* load_data_from_npz *)

\* A key is the sequence of its characters; Ord is the code point Python
\* compares strings by.
Ord(c) ==
    CASE c = "B" -> 66 [] c = "_" -> 95 [] c = "a" -> 97 [] c = "b" -> 98
      [] c = "s" -> 115 [] c = "t" -> 116 [] c = "x" -> 120

\* str < str of Python.
RECURSIVE StrLess(_, _)
StrLess(u, v) ==
    IF v = <<>> THEN FALSE
    ELSE IF u = <<>> THEN TRUE
    ELSE IF Head(u) = Head(v) THEN StrLess(Tail(u), Tail(v))
    ELSE Ord(Head(u)) < Ord(Head(v))

\* sorted(npz): the keys of the archive in ascending order.
RECURSIVE Sorted(_)
Sorted(S) ==
    IF S = {} THEN <<>>
    ELSE LET k == CHOOSE k \in S : \A o \in S : o = k \/ StrLess(k, o)
         IN  <<k>> \o Sorted(S \ {k})

\* utt_key.split("_"): the segments between the underscores.
RECURSIVE Split(_)
Split(key) ==
    IF key = <<>> THEN << <<>> >>
    ELSE LET rest == Split(Tail(key))
         IN  IF Head(key) = "_" THEN << <<>> >> \o rest
             ELSE << <<Head(key)>> \o Head(rest) >> \o Tail(rest)

\* Line 32: whether an array of n rows is skipped.
Skipped(n, m) == m # None /\ n <= m

\* The array the archive holds under key, of n rows.
Array(key, n) == [key |-> key, rows |-> n, cols |-> FeatDim]

\* load_data_from_npz(npz_fn, min_length): the five lists, or the exception.
LoadResult(z, m) ==
    LET order == Sorted(z.keys)
        kept  == SelectSeq(order, LAMBDA k : ~Skipped(z.rows[k], m))
    IN  IF \E i \in 1..Len(kept) : Len(Split(kept[i])) < 2
        THEN [exc |-> "IndexError"]             \* utt_key_split[1]
        ELSE IF kept = <<>>
        THEN [exc |-> "IndexError"]             \* x[0].shape
        ELSE [exc      |-> "none",
              x        |-> [i \in 1..Len(kept) |->
                              Array(kept[i], z.rows[kept[i]])],
              labels   |-> [i \in 1..Len(kept) |-> Split(kept[i])[1]],
              lengths  |-> [i \in 1..Len(kept) |-> z.rows[kept[i]]],
              keys     |-> kept,
              speakers |-> [i \in 1..Len(kept) |-> Split(kept[i])[2]]]

\* The keys archives are made of: label_speaker[_more], and one without
\* a speaker.
KeyPool ==
    { <<"a", "_", "s">>, <<"a", "_", "t">>, <<"a", "b", "_", "s">>,
      <<"b", "_", "s", "_", "x">>, <<"B", "_", "t">>, <<"b">> }

InitLoad ==
    /\ pc = "load"
    /\ \E K \in SUBSET KeyPool :
       \E r \in [K -> 0..MaxRows] :
          /\ Cardinality(K) <= MaxItems
          /\ npz = [keys |-> K, rows |-> r]
    /\ min_length \in {None} \cup 0..MaxRows
    /\ loaded = Pending
    /\ FilterIdle
    /\ PadIdle

LoadDataFromNpz ==
    /\ pc = "load"
    /\ loaded' = LoadResult(npz, min_length)
    /\ pc' = "loaded"
    /\ UNCHANGED <<npz, min_length, filterVars, padVars>>

NextLoad == LoadDataFromNpz

SpecLoad == InitLoad /\ [][NextLoad]_vars

---------------------------------------------------------------------------
(* The generator of `random` *)

\* One step of the generator.  The Mersenne Twister is not computed: any
\* fixed map of states does for what filter_data relies on.
RngNext(s) == (5 * s + 3) % 16

\* randbelow(n) read off the generator state s.
RandBelow(s, n) == s % n

\* The loop of random.shuffle from index i (0-based) down to 1:
\* j = randbelow(i + 1); x[i], x[j] = x[j], x[i].
RECURSIVE ShuffleFrom(_, _, _)
ShuffleFrom(x, i, s) ==
    IF i < 1 THEN [x |-> x, rng |-> s]
    ELSE LET s2 == RngNext(s)
             j  == RandBelow(s2, i + 1)
             y  == [k \in 1..Len(x) |->
                      IF k = i + 1 THEN x[j + 1]
                      ELSE IF k = j + 1 THEN x[i + 1] ELSE x[k]]
         IN  ShuffleFrom(y, i - 1, s2)

\* random.shuffle(x) with the generator in state s: the shuffled list and
\* the state the generator is left in.
Shuffle(x, s) == ShuffleFrom(x, Len(x) - 1, s)

\* The seed left out: the generator stays where it is.
NotSeeded(s) == s

\* random.seed(1): the generator state after it, whatever it was before.
Seed(s) == seeded

---------------------------------------------------------------------------
(* filter_data *)

EmptyBundle ==
    [data |-> <<>>, labels |-> <<>>, lengths |-> <<>>, keys |-> <<>>,
     speakers |-> <<>>]

\* The five appends of one loop iteration, for entry i of bundle b.
AppendEntry(f, b, i) ==
    [data     |-> Append(f.data, b.data[i]),
     labels   |-> Append(f.labels, b.labels[i]),
     lengths  |-> Append(f.lengths, b.lengths[i]),
     keys     |-> Append(f.keys, b.keys[i]),
     speakers |-> Append(f.speakers, b.speakers[i])]

\* The filtered_* lists after a loop that appends the entries idx[1],
\* idx[2], ... of b (1-based positions).
RECURSIVE Pick(_, _)
Pick(b, idx) ==
    IF idx = <<>> THEN EmptyBundle
    ELSE AppendEntry(Pick(b, SubSeq(idx, 1, Len(idx) - 1)), b, idx[Len(idx)])

\* list(range(len(data))), as 1-based positions.
Indices(b) == [i \in 1..Len(b.data) |-> i]

\* Counter(labels)[l].
Count(labels, l) == Cardinality({i \in 1..Len(labels) : labels[i] = l})

\* The keys of Counter(labels) in insertion order: each label where it
\* first occurs.
RECURSIVE Distinct(_)
Distinct(labels) ==
    IF labels = <<>> THEN <<>>
    ELSE LET before == Distinct(SubSeq(labels, 1, Len(labels) - 1))
             l == labels[Len(labels)]
         IN  IF \E i \in 1..Len(before) : before[i] = l THEN before
             ELSE Append(before, l)

\* Equal counts ranked with the label seen last first.
RECURSIVE ByCountLastFirst(_, _)
ByCountLastFirst(order, labels) ==
    IF order = <<>> THEN <<>>
    ELSE LET best == CHOOSE i \in 1..Len(order) :
                       \A j \in 1..Len(order) :
                          \/ Count(labels, order[j]) < Count(labels, order[i])
                          \/ /\ Count(labels, order[j]) = Count(labels, order[i])
                             /\ i >= j
             rest == [j \in 1..(Len(order) - 1) |->
                        IF j < best THEN order[j] ELSE order[j + 1]]
         IN  <<order[best]>> \o ByCountLastFirst(rest, labels)

\* sorted(items, key=count, reverse=True): a stable sort, so equal counts
\* stay in the order of `order`.
RECURSIVE ByCount(_, _)
ByCount(order, labels) ==
    IF order = <<>> THEN <<>>
    ELSE LET best == CHOOSE i \in 1..Len(order) :
                       \A j \in 1..Len(order) :
                          \/ Count(labels, order[j]) < Count(labels, order[i])
                          \/ /\ Count(labels, order[j]) = Count(labels, order[i])
                             /\ i <= j
             rest == [j \in 1..(Len(order) - 1) |->
                        IF j < best THEN order[j] ELSE order[j + 1]]
         IN  <<order[best]>> \o ByCount(rest, labels)

\* [i[0] for i in Counter(labels).most_common(k)]: heapq.nlargest gives
\* the first k of the stable descending sort, and nothing for k <= 0.
MostCommon(labels, k) ==
    IF k <= 0 THEN <<>>
    ELSE Slice(ByCount(Distinct(labels), labels), 0, k)

InSeq(l, types) == \E i \in 1..Len(types) : types[i] = l

\* Lines 66-91: the n_max_types stage.
MaxTypesStage(b, k) ==
    LET types == MostCommon(b.labels, k)
    IN  Pick(b, SelectSeq(Indices(b), LAMBDA i : InSeq(b.labels[i], types)))

\* The slice of line 106 taken one entry too long.
MaxTokensStageLong(b, n, s) ==
    LET sh == Shuffle(Indices(b), s)
    IN  [b |-> Pick(b, Slice(sh.x, 0, n + 1)), rng |-> sh.rng]

\* Lines 93-117: the n_max_tokens stage, with the generator in state s.
MaxTokensStage(b, n, s) ==
    LET sh == Shuffle(Indices(b), s)
    IN  [b |-> Pick(b, Slice(sh.x, 0, n)), rng |-> sh.rng]

\* The test of line 127 off by one.
MinPerTypeStageLax(b, m) ==
    Pick(b, SelectSeq(Indices(b),
                      LAMBDA i : Count(b.labels, b.labels[i]) >= m - 1))

\* Lines 119-148: the n_min_tokens_per_type stage.
MinPerTypeStage(b, m) ==
    Pick(b, SelectSeq(Indices(b),
                      LAMBDA i : Count(b.labels, b.labels[i]) >= m))

\* The loop of lines 163-170 over the shuffled positions idx, f holding
\* what it appended so far; tokens_per_type[l] is Count(f.labels, l).
RECURSIVE Admit(_, _, _, _)
Admit(f, b, idx, m) ==
    IF idx = <<>> THEN f
    ELSE LET i == Head(idx)
         IN  IF Count(f.labels, b.labels[i]) < m
             THEN Admit(AppendEntry(f, b, i), b, Tail(idx), m)
             ELSE Admit(f, b, Tail(idx), m)

\* Lines 150-176: the n_max_tokens_per_type stage.
MaxPerTypeStage(b, m, s) ==
    LET sh == Shuffle(Indices(b), s)
    IN  [b |-> Admit(EmptyBundle, b, sh.x, m), rng |-> sh.rng]

\* Every constraint taken as given.
GivenAlways(v) == TRUE

\* `v is not None`.
Given(v) == v # None

\* data = filtered_data, ..., speakers = filtered_speakers: the five names
\* now refer to the new lists b, made by `stage`.
Rebind(st, b, stage) ==
    [heap |-> Append(st.heap, b), made |-> Append(st.made, stage),
     rng |-> st.rng]

\* The generator of state st left in state s by a shuffle.
Drawn(st, s) == [heap |-> st.heap, made |-> st.made, rng |-> s]

\* The lists the names data, labels, ... refer to.
Current(st) == st.heap[Len(st.heap)]

\* Lines 66-91 with their test: the state st of the call after them.
AfterMaxTypes(st, a) ==
    IF Given(a.n_max_types)
    THEN Rebind(st, MaxTypesStage(Current(st), a.n_max_types), "n_max_types")
    ELSE st

\* Lines 93-117 with their test.
AfterMaxTokens(st, a) ==
    IF Given(a.n_max_tokens)
    THEN LET r == MaxTokensStage(Current(st), a.n_max_tokens, st.rng)
         IN  Drawn(Rebind(st, r.b, "n_max_tokens"), r.rng)
    ELSE st

\* Lines 119-148 with their test.
AfterMinPerType(st, a) ==
    IF Given(a.n_min_tokens_per_type)
    THEN Rebind(st, MinPerTypeStage(Current(st), a.n_min_tokens_per_type),
                "n_min_tokens_per_type")
    ELSE st

\* Lines 150-176 with their test.
AfterMaxPerType(st, a) ==
    IF Given(a.n_max_tokens_per_type)
    THEN LET r == MaxPerTypeStage(Current(st), a.n_max_tokens_per_type,
                                  st.rng)
         IN  Drawn(Rebind(st, r.b, "n_max_tokens_per_type"), r.rng)
    ELSE st

\* The body of filter_data on the lists inp with constraints a and the
\* generator in state s: the list objects that exist at the return (the
\* last is the one returned), the stage that made each, the generator.
FilterRun(inp, a, s) ==
    AfterMaxPerType(
        AfterMinPerType(
            AfterMaxTokens(
                AfterMaxTypes([heap |-> <<inp>>, made |-> <<"input">>,
                               rng |-> Seed(s)], a),
                a),
            a),
        a)

\* An error raised when nothing is left.
EndingRaiseOnEmpty(b) ==
    IF b.data = <<>> THEN "EmptyDatasetError" ELSE "returned"

\* Lines 178-180: the counts are printed and the lists returned, whatever
\* is left in them.
Ending(b) == "returned"

FilterData ==
    /\ pc = "filter"
    /\ LET run == FilterRun(heap[argRef], args, rng)
           res == run.heap[Len(run.heap)]
       IN  /\ heap' = run.heap
           /\ made' = run.made
           /\ retRef' = Len(run.heap)
           /\ rng' = run.rng
           /\ status' = Ending(res)
           /\ prev' = IF cur.called
                      THEN [called |-> TRUE, input |-> cur.input,
                            result |-> cur.result]
                      ELSE NoCall
           /\ cur' = [called |-> TRUE, input |-> heap[argRef],
                      entry_rng |-> rng, result |-> res]
    /\ draws' = 0
    /\ pc' = "after_filter"
    /\ UNCHANGED <<argRef, args, seeded, loadVars, padVars>>

---------------------------------------------------------------------------
(* trunc_and_limit_dim *)

\* x[i][:max_length, :d_frame] of the array arr.
TruncArray(arr, d_frame, max_length) ==
    [key  |-> arr.key,
     rows |-> SliceBounds(0, max_length, arr.rows)[2],
     cols |-> SliceBounds(0, d_frame, arr.cols)[2]]

\* trunc_and_limit_dim(x, lengths, d_frame, max_length) on the lists of
\* bundle b: both lists are changed in place.
TruncAndLimit(b, d_frame, max_length) ==
    [data     |-> [i \in 1..Len(b.data) |->
                     TruncArray(b.data[i], d_frame, max_length)],
     labels   |-> b.labels,
     lengths  |-> [i \in 1..Len(b.data) |-> Min(b.lengths[i], max_length)],
     keys     |-> b.keys,
     speakers |-> b.speakers]

\* The caller truncates the lists filter_data returned (apply_model does
\* so with the model's n_input and max_length).
TruncAndLimitDim ==
    /\ pc = "after_filter"
    /\ status = "returned"
    /\ heap' = [i \in 1..Len(heap) |->
                   IF i = retRef
                   THEN TruncAndLimit(heap[i], NInput, MaxLength)
                   ELSE heap[i]]
    /\ pc' = "truncated"
    /\ UNCHANGED <<made, argRef, retRef, args, rng, seeded, cur, prev, draws,
                   status, loadVars, padVars>>

\* Another user of the module-level generator draws from it.
RandomDraw ==
    /\ pc \in {"after_filter", "truncated"}
    /\ draws < MaxDraws
    /\ rng' = RngNext(rng)
    /\ draws' = draws + 1
    /\ UNCHANGED <<pc, heap, made, argRef, retRef, args, seeded, cur, prev,
                   status, loadVars, padVars>>

\* The caller is about to call filter_data again on the lists it passed
\* before, with the same constraints; the lists of the last call that it
\* does not hold are gone.
CallAgain ==
    /\ pc \in {"after_filter", "truncated"}
    /\ heap' = <<heap[argRef]>>
    /\ made' = <<"input">>
    /\ retRef' = 0
    /\ pc' = "filter"
    /\ UNCHANGED <<argRef, args, rng, seeded, cur, prev, draws, status,
                   loadVars, padVars>>

\* Characters that tell the keys of one dataset apart.
Suffix == <<"a", "b", "s", "t", "x", "B">>

\* A dataset as load_data_from_npz returns it or filter_data reorders it:
\* entry i has label ls[i], a key of its own and i rows.
Dataset(ls) ==
    LET spk(i) == IF i % 2 = 1 THEN <<"s">> ELSE <<"t">>
        key(i) == ls[i] \o <<"_">> \o spk(i) \o <<"_", Suffix[i]>>
    IN  [data     |-> [i \in 1..Len(ls) |-> Array(key(i), i)],
         labels   |-> ls,
         lengths  |-> [i \in 1..Len(ls) |-> i],
         keys     |-> [i \in 1..Len(ls) |-> key(i)],
         speakers |-> [i \in 1..Len(ls) |-> spk(i)]]

\* The start of a run of filter_data: datasets of up to maxTokens entries
\* with labels of L, constraints None or 0..maxArg.
FilterStart(L, maxTokens, maxArg) ==
    /\ pc = "filter"
    /\ \E n \in 0..maxTokens :
       \E ls \in [1..n -> L] :
          heap = <<Dataset(ls)>>
    /\ made = <<"input">>
    /\ argRef = 1
    /\ retRef = 0
    /\ args \in [n_min_tokens_per_type : {None} \cup 0..maxArg,
                 n_max_types : {None} \cup 0..maxArg,
                 n_max_tokens : {None} \cup 0..maxArg,
                 n_max_tokens_per_type : {None} \cup 0..maxArg]
    /\ seeded \in 0..(NSeeds - 1)
    /\ rng = 0
    /\ cur = NoCall /\ prev = NoCall
    /\ draws = 0
    /\ status = "none"
    /\ LoadIdle
    /\ PadIdle

InitFilter == FilterStart({<<"a">>, <<"b">>, <<"c">>}, MaxTokens, MaxArg)

NextFilter == FilterData

SpecFilter == InitFilter /\ [][NextFilter]_vars

InitSession == FilterStart({<<"a">>, <<"b">>}, SessTokens, SessArg)

NextSession == FilterData \/ TruncAndLimitDim \/ RandomDraw \/ CallAgain

SpecSession == InitSession /\ [][NextSession]_vars

---------------------------------------------------------------------------
(* Claims about pad_sequences, checked under SpecPad *)

PadReturned == pc = "padded" /\ padOut.exc = "none"

IsHalfRoundedToEven(d, r) ==
    /\ 2 * r - d \in {-1, 0, 1}
    /\ (2 * r # d) => (r % 2 = 0)

\* C2: centred, with offset = round-half-to-even((T - L) / 2): when L <= T
\* the whole sequence is copied in order into rows [offset, offset + L),
\* 0 <= offset, offset + L <= T, every other row zero; when L > T output
\* row j is input row -offset + j, the window [-offset, -offset + T) lies
\* inside [0, L), has T rows, and the mask, if requested, is all ones.
C2_CentredPolicy ==
    (pc = "padded" /\ padIn.center_padded /\ Len(padIn.x) > 0) =>
        /\ padOut.exc = "none"
        /\ \A i \in 1..Len(padIn.x) :
             LET cur_x == padIn.x[i]
                 L     == Len(cur_x)
                 T     == padIn.n_padded
                 row   == padOut.padded_x[i]
             IN  \E offset \in -(L + T)..(L + T) :
                   /\ IsHalfRoundedToEven(T - L, offset)
                   /\ Len(row) = T
                   /\ IF L <= T
                      THEN /\ 0 <= offset /\ offset + L <= T
                           /\ \A j \in 0..(T - 1) :
                                row[j + 1] =
                                  IF offset <= j /\ j < offset + L
                                  THEN cur_x[j - offset + 1] ELSE 0
                      ELSE /\ 0 <= -offset /\ -offset + T <= L
                           /\ \A j \in 0..(T - 1) :
                                row[j + 1] = cur_x[-offset + j + 1]
                           /\ padIn.return_mask =>
                                padOut.mask_x[i] = [j \in 1..T |-> 1]

\* The example: lengths [2, 5, 3] padded to 4 rows, centred: the sequence
\* of 2 rows lies in rows [1, 3), the one of 5 rows is cut to 4 rows.
C2_Witness ==
    /\ PadReturned /\ padIn.center_padded /\ padIn.n_padded = 4
    /\ Len(padIn.x) = 3
    /\ Len(padIn.x[1]) = 2 /\ Len(padIn.x[2]) = 5 /\ Len(padIn.x[3]) = 3
    /\ padOut.padded_x[1] = <<0, 1, 2, 0>>
    /\ padOut.padded_x[2] = <<1, 2, 3, 4>>
    /\ padOut.lengths = <<2, 4, 3>>

---------------------------------------------------------------------------
(* Claims about load_data_from_npz, checked under SpecLoad *)

HasUnderscore(k) == \E i \in 1..Len(k) : k[i] = "_"

\* The archive entries longer than min_length.
LongEntries ==
    {k \in npz.keys : min_length = None \/ npz.rows[k] > min_length}

\* l and sp are the first and the second "_"-separated segment of key k.
FirstTwoSegments(k, l, sp) ==
    LET n == Len(l)
        m == Len(sp)
    IN  /\ ~HasUnderscore(l) /\ ~HasUnderscore(sp)
        /\ Len(k) >= n + 1 + m
        /\ SubSeq(k, 1, n) = l
        /\ k[n + 1] = "_"
        /\ SubSeq(k, n + 2, n + 1 + m) = sp
        /\ (Len(k) = n + 1 + m \/ k[n + m + 2] = "_")

\* What C7 says of the lists of a call that returned.
LoadedListsRight ==
    /\ Len(loaded.keys) = Cardinality(LongEntries)
    /\ {loaded.keys[i] : i \in 1..Len(loaded.keys)} = LongEntries
    /\ \A i \in 1..(Len(loaded.keys) - 1) :
         StrLess(loaded.keys[i], loaded.keys[i + 1])
    /\ Len(loaded.x) = Len(loaded.keys)
    /\ Len(loaded.labels) = Len(loaded.keys)
    /\ Len(loaded.lengths) = Len(loaded.keys)
    /\ Len(loaded.speakers) = Len(loaded.keys)
    /\ \A i \in 1..Len(loaded.keys) :
         /\ loaded.x[i].key = loaded.keys[i]
         /\ loaded.x[i].rows = npz.rows[loaded.keys[i]]
         /\ loaded.lengths[i] = loaded.x[i].rows
         /\ FirstTwoSegments(loaded.keys[i], loaded.labels[i],
                             loaded.speakers[i])

\* C7: load_data_from_npz with min_length=m returns exactly the entries
\* of more than m rows (all of them for None), in sorted key order, in
\* five parallel lists, label and speaker being the first and second
\* segment of the key.  Stated for archives whose retained keys all have
\* a speaker segment.
C7_LoadReturnsLongEntries ==
    (pc = "loaded" /\ \A k \in LongEntries : HasUnderscore(k)) =>
        (loaded.exc = "none" /\ LoadedListsRight)

\* The part of C7 the code keeps: a call that returns returns those lists,
\* and a call raises only when no entry is retained or a retained key has
\* no speaker segment.
C7_WhenAnEntryIsRetained ==
    pc = "loaded" =>
        /\ loaded.exc = "none" => LoadedListsRight
        /\ loaded.exc # "none" =>
             (LongEntries = {} \/ \E k \in LongEntries : ~HasUnderscore(k))

\* A call returned after dropping an entry of exactly min_length rows and
\* keeping two whose keys one prefixes up to the underscore.
C7_WhenAnEntryIsRetained_Witness ==
    /\ pc = "loaded" /\ loaded.exc = "none"
    /\ min_length # None
    /\ \E k \in npz.keys : npz.rows[k] = min_length
    /\ loaded.keys = << <<"a", "_", "s">>, <<"a", "b", "_", "s">> >>

---------------------------------------------------------------------------
(* Claims about filter_data, checked under SpecFilter *)

\* The lists filter_data returned.
Result == heap[retRef]

LabelSet(b) == {b.labels[i] : i \in 1..Len(b.labels)}
KeySet(b)   == {b.keys[i] : i \in 1..Len(b.keys)}

\* The position of a stage in the documented order.
StageRank(stage) ==
    CASE stage = "input" -> 0
      [] stage = "n_max_types" -> 1
      [] stage = "n_max_tokens" -> 2
      [] stage = "n_min_tokens_per_type" -> 3
      [] stage = "n_max_tokens_per_type" -> 4

Ran(stage) == \E i \in 1..Len(made) : made[i] = stage

\* The lists a stage made, and the lists it read.
StageOutput(stage) == heap[CHOOSE i \in 1..Len(made) : made[i] = stage]
StageInput(stage)  == heap[(CHOOSE i \in 1..Len(made) : made[i] = stage) - 1]

\* C3: the upper caps hold on the returned dataset for every combination
\* of constraints: the stages run in the order n_max_types, n_max_tokens,
\* n_min_tokens_per_type, n_max_tokens_per_type, each on the output of the
\* one before, none adds entries; at most n_max_types distinct labels; at
\* most n_max_tokens entries, exactly min(n, size of its input) right
\* after that stage; every label at most n_max_tokens_per_type times.
C3_UpperCaps ==
    pc = "after_filter" =>
        /\ made[1] = "input" /\ Len(made) = Len(heap) /\ retRef = Len(heap)
        /\ \A i \in 1..(Len(made) - 1) :
             StageRank(made[i]) < StageRank(made[i + 1])
        /\ Ran("n_max_types") <=> args.n_max_types # None
        /\ Ran("n_max_tokens") <=> args.n_max_tokens # None
        /\ Ran("n_min_tokens_per_type") <=> args.n_min_tokens_per_type # None
        /\ Ran("n_max_tokens_per_type") <=> args.n_max_tokens_per_type # None
        /\ \A i \in 2..Len(heap) :
             /\ KeySet(heap[i]) \subseteq KeySet(heap[i - 1])
             /\ Cardinality(KeySet(heap[i])) = Len(heap[i].keys)
        /\ args.n_max_types # None =>
             Cardinality(LabelSet(Result)) <= args.n_max_types
        /\ args.n_max_tokens # None =>
             /\ Len(Result.data) <= args.n_max_tokens
             /\ Len(StageOutput("n_max_tokens").data) =
                  Min(args.n_max_tokens,
                      Len(StageInput("n_max_tokens").data))
        /\ args.n_max_tokens_per_type # None =>
             \A l \in LabelSet(Result) :
                Count(Result.labels, l) <= args.n_max_tokens_per_type

\* All four constraints given, and the token cap and the per-label cap
\* each cut something.
C3_Witness ==
    /\ pc = "after_filter"
    /\ args.n_max_types = 2 /\ args.n_max_tokens = 2
    /\ args.n_min_tokens_per_type = 1 /\ args.n_max_tokens_per_type = 1
    /\ Len(heap[1].data) = 3
    /\ Len(StageInput("n_max_tokens").data) = 3
    /\ Len(StageInput("n_max_tokens_per_type").data) = 2
    /\ Len(Result.data) = 1

\* C4 as claimed: with n_min_tokens_per_type=m every label of the returned
\* dataset occurs at least m times in it, whichever other constraints
\* are given.
C4_MinimumPerLabel ==
    (pc = "after_filter" /\ args.n_min_tokens_per_type # None) =>
        \A l \in LabelSet(Result) :
           Count(Result.labels, l) >= args.n_min_tokens_per_type

\* C4 amended: the same, provided n_max_tokens_per_type is None or at
\* least m; n_max_types and n_max_tokens may be anything.
C4_MinimumPerLabelUnlessCapped ==
    (/\ pc = "after_filter"
     /\ args.n_min_tokens_per_type # None
     /\ \/ args.n_max_tokens_per_type = None
        \/ args.n_max_tokens_per_type >= args.n_min_tokens_per_type) =>
        \A l \in LabelSet(Result) :
           Count(Result.labels, l) >= args.n_min_tokens_per_type

\* The minimum dropped a label, another label survived it and the later
\* per-label cap.
C4_Witness ==
    /\ pc = "after_filter"
    /\ args.n_min_tokens_per_type = 2 /\ args.n_max_tokens_per_type = 2
    /\ Len(StageOutput("n_min_tokens_per_type").data) <
         Len(StageInput("n_min_tokens_per_type").data)
    /\ Len(Result.data) = 2

\* C5: with all four constraints None the returned lists hold the same
\* entries in the same order as the lists passed in.
C5_NoConstraintNoChange ==
    (pc = "after_filter" /\ args = NoArgs) =>
        /\ Result = cur.input
        /\ cur.result = cur.input

\* A call without constraints returned a dataset of three entries.
C5_Witness ==
    /\ pc = "after_filter" /\ args = NoArgs
    /\ Len(cur.input.data) = 3
    /\ Len(Result.data) = 3

\* C8 as claimed: when filtering leaves zero entries filter_data raises
\* EmptyDatasetError instead of returning an empty dataset.
C8_EmptyResultRaises ==
    (pc = "after_filter" /\ Result.data = <<>>) =>
        status = "EmptyDatasetError"

\* C8 amended: when filtering leaves zero entries filter_data raises
\* nothing and returns five empty lists.
C8_EmptyResultReturned ==
    (pc = "after_filter" /\ Result.data = <<>>) =>
        /\ status = "returned"
        /\ Result = EmptyBundle
        /\ cur.result = EmptyBundle

\* A call on a dataset of three entries left none.
C8_Witness ==
    /\ pc = "after_filter"
    /\ Len(cur.input.data) = 3
    /\ Result.data = <<>>
    /\ status = "returned"

\* The position at which label l first occurs.
FirstAt(labels, l) == CHOOSE i \in 1..Len(labels) :
                        labels[i] = l /\ \A j \in 1..(i - 1) : labels[j] # l

\* Label o ranks before label l: more occurrences, or as many and seen
\* earlier.
RanksBefore(labels, o, l) ==
    \/ Count(labels, o) > Count(labels, l)
    \/ /\ Count(labels, o) = Count(labels, l)
       /\ FirstAt(labels, o) < FirstAt(labels, l)

\* C10: the n_max_types stage keeps, in their original relative order,
\* exactly the entries whose label is among the n_max_types labels of
\* highest count in its input, equal counts ranked by first occurrence;
\* with at most n_max_types distinct labels it keeps every entry.
C10_MostFrequentLabelsKept ==
    (pc = "after_filter" /\ args.n_max_types # None) =>
        LET inp == StageInput("n_max_types")
            out == StageOutput("n_max_types")
            top(l) == Cardinality({o \in LabelSet(inp) :
                                     RanksBefore(inp.labels, o, l)})
                        < args.n_max_types
        IN  /\ inp = heap[1]
            /\ out = Pick(inp, SelectSeq(Indices(inp),
                                         LAMBDA i : top(inp.labels[i])))
            /\ Cardinality(LabelSet(inp)) <= args.n_max_types => out = inp

\* Two labels tie, the one seen first is not the first in the alphabet,
\* and only its entry is kept.
C10_Witness ==
    /\ pc = "after_filter" /\ args.n_max_types = 1
    /\ heap[1].labels = << <<"b">>, <<"a">>, <<"c">> >>
    /\ StageOutput("n_max_types").labels = << <<"b">> >>

---------------------------------------------------------------------------
(* Claims about repeated calls and truncation, checked under SpecSession *)

\* The generator state k steps after s.
RECURSIVE Advance(_, _)
Advance(s, k) == IF k = 0 THEN s ELSE Advance(RngNext(s), k - 1)

\* The draws random.shuffle makes on a list of n items.
ShuffleDraws(n) == Max(n - 1, 0)

\* The draws of the stage, if it ran.
DrawsOf(stage) ==
    IF Ran(stage) THEN ShuffleDraws(Len(StageInput(stage).data)) ELSE 0

\* C6: the seed is set once at the start of every invocation, so two
\* invocations with the same input and constraints return the same entries
\* in the same order whatever was drawn in between; and within one
\* invocation the two shuffles draw one after the other from the stream
\* seeded at its start.
C6_Reproducible ==
    /\ (cur.called /\ prev.called /\ prev.input = cur.input) =>
           prev.result = cur.result
    /\ (pc = "after_filter" /\ draws = 0) =>
           rng = Advance(seeded, DrawsOf("n_max_tokens")
                                 + DrawsOf("n_max_tokens_per_type"))

\* Two invocations on the same two entries, another user having drawn
\* from the generator between them, each invocation shuffling twice.
C6_Witness ==
    /\ cur.called /\ prev.called
    /\ prev.input = cur.input
    /\ pc = "after_filter" /\ draws = 0
    /\ cur.entry_rng # rng
    /\ DrawsOf("n_max_tokens") = 1
    /\ DrawsOf("n_max_tokens_per_type") = 1
    /\ Len(cur.result.data) = 1

SomeConstraint == args # NoArgs

\* C9 as claimed: for every combination of constraints, all None too,
\* after filter_data and trunc_and_limit_dim on the returned lists the
\* lists passed in still hold their sequences and lengths.
C9_InputUntouched ==
    pc \in {"after_filter", "truncated"} => heap[argRef] = cur.input

\* The part of C9 the code keeps: the same for every combination with at
\* least one constraint given; the truncation then changes the returned
\* lists only.
C9_InputUntouchedWhenFiltered ==
    (pc \in {"after_filter", "truncated"} /\ SomeConstraint) =>
        /\ heap[argRef] = cur.input
        /\ retRef # argRef
        /\ pc = "truncated" =>
             heap[retRef] = TruncAndLimit(cur.result, NInput, MaxLength)

\* A constraint that dropped nothing was given, and the truncation cut
\* the returned sequences.
C9_Witness ==
    /\ pc = "truncated" /\ SomeConstraint
    /\ cur.result = cur.input
    /\ Len(cur.input.data) = 2
    /\ heap[retRef] # cur.result
    /\ heap[retRef].lengths = <<1, 1>>

===========================================================================
